---- MODULE Spec2Model ----
\* A model of the obsidian-speech plugin in its three source variants:
\*   legacy  src/unnamed/part_000  (speak the selection, no loop)
\*   flag    src/src/main.ts       (line loop guarded by the boolean `speaking`)
\*   token   src/unnamed/part_001  (line loop guarded by the timestamp `startedTime`)
\* Text is a sequence of one-character strings; "\n" is the line separator.
\* Editor positions are records [line, ch], both counted from 0 as in the
\* editor API.
EXTENDS Integers, Sequences, FiniteSets, TLC

VARIABLES
    doc,          \* the note: a sequence of lines (Text Source, fixed during a run)
    followCursor, \* settings.followCursor (token variant)
    voices,       \* speechSynthesis.getVoices(): the registry of voice profiles
    defaultLanguage, \* settings.defaultLanguage: the configured voice's name
    now,          \* the value Date.now() returned last
    startedTime,  \* this.startedTime (token variant)
    speaking,     \* this.speaking (flag variant)
    cursor,       \* this.cursor, the remembered resume cursor, or NullCursor
    edCursor,     \* the editor's visible cursor
    sess,         \* one record per StartSpeech/onEditorCallback invocation
    nsess,        \* number of invocations so far
    queue,        \* speechSynthesis: utterances spoken or waiting, in order
    ending,       \* cancelled utterances whose `end` event is still to be delivered
    requests,     \* history: every speechSynthesis.speak() call, in order
    notices,      \* number of Notice toasts shown
    userCancelled, \* history: sessions that were awaiting when Cancel was triggered
    cleaned       \* the results of cleanUpText applied to a line, then to its own result

vars == <<doc, followCursor, voices, defaultLanguage, cleaned, now, startedTime, speaking, cursor, edCursor, sess,
          nsess, queue, ending, requests, notices, userCancelled>>

----------------------------------------------------------------------------
\* Bounds of the model

MaxSessions == 2

----------------------------------------------------------------------------
\* Text Source (the editor)

NullCursor == [line |-> -1, ch |-> -1]
NL == "\n"

Pos(l, c) == [line |-> l, ch |-> c]

\* position order
Before(p, q) == p.line < q.line \/ (p.line = q.line /\ p.ch <= q.ch)

getLine(d, n) == d[n + 1]
lastLine(d) == Len(d) - 1

RECURSIVE JoinLines(_)
JoinLines(ls) ==
    IF Len(ls) = 0 THEN <<>>
    ELSE IF Len(ls) = 1 THEN ls[1]
    ELSE ls[1] \o <<NL>> \o JoinLines(Tail(ls))

getValue(d) == JoinLines(d)

\* editor.getRange(from, to), from not after to
getRange(d, from, to) ==
    IF ~Before(from, to) THEN <<>>
    ELSE IF from.line = to.line
    THEN SubSeq(getLine(d, from.line), from.ch + 1, to.ch)
    ELSE JoinLines(
            <<SubSeq(getLine(d, from.line), from.ch + 1, Len(getLine(d, from.line)))>>
            \o SubSeq(d, from.line + 2, to.line)
            \o <<SubSeq(getLine(d, to.line), 1, to.ch)>>)

\* the editor's selection is (anchor, head); getSelection() is the text between
\* them and getCursor() is the head
SelFrom(anchor, head) == IF Before(anchor, head) THEN anchor ELSE head
SelTo(anchor, head) == IF Before(anchor, head) THEN head ELSE anchor
getSelection(d, anchor, head) == getRange(d, SelFrom(anchor, head), SelTo(anchor, head))
getCursor(anchor, head) == head

\* every position of the note: a line and a column within it
Positions(d) ==
    UNION { { Pos(l, c) : c \in 0..Len(getLine(d, l)) } : l \in 0..lastLine(d) }

\* editor.setCursor clips the position to the note
Clip(x, lo, hi) == IF x < lo THEN lo ELSE IF x > hi THEN hi ELSE x
setCursor(d, p) ==
    LET l == Clip(p.line, 0, lastLine(d))
    IN Pos(l, Clip(p.ch, 0, Len(getLine(d, l))))

\* String.prototype.split('\n')
FirstNL(t) == IF \E k \in 1..Len(t) : t[k] = NL
              THEN CHOOSE k \in 1..Len(t) : t[k] = NL /\ \A j \in 1..(k-1) : t[j] # NL
              ELSE 0

RECURSIVE split(_)
split(t) ==
    IF FirstNL(t) = 0 THEN <<t>>
    ELSE <<SubSeq(t, 1, FirstNL(t) - 1)>> \o split(SubSeq(t, FirstNL(t) + 1, Len(t)))

----------------------------------------------------------------------------
\* Markup cleaner: String.replace with a global regular expression.
\* A matcher M(t, p) gives the index of the last character of the match that
\* starts at index p of t, or 0 when the expression does not match there.
\* A replacement R(t, p, e) gives the text that replaces t[p..e].

\* The line terminators of a regular expression: \n, \r, U+2028 and U+2029
\* (the last two written as their escapes). The dot matches none of them and
\* ^ under the m flag matches after each of them.
LineTerminators == {"\n", "\r", "\\u2028", "\\u2029"}

\* no line terminator in t[from..to]
DotRun(t, from, to) == \A j \in from..to : t[j] \notin LineTerminators

\* (.*?) followed by the character c: least k >= from with t[k] = c and only
\* characters the dot matches in t[from..k-1], or 0
IndexOf(t, c, from) ==
    IF \E k \in from..Len(t) : t[k] = c /\ DotRun(t, from, k - 1)
    THEN CHOOSE k \in from..Len(t) :
            /\ t[k] = c /\ DotRun(t, from, k - 1)
            /\ \A j \in from..(k-1) : t[j] # c
    ELSE 0

\* (.*?) followed by the characters a b: least k >= from with t[k] = a,
\* t[k+1] = b and only characters the dot matches in t[from..k-1], or 0
IndexOf2(t, a, b, from) ==
    IF \E k \in from..(Len(t) - 1) : t[k] = a /\ t[k+1] = b /\ DotRun(t, from, k - 1)
    THEN CHOOSE k \in from..(Len(t) - 1) :
            /\ t[k] = a /\ t[k+1] = b /\ DotRun(t, from, k - 1)
            /\ \A j \in from..(k-1) : ~(t[j] = a /\ t[j+1] = b)
    ELSE 0

At(t, p, c) == p >= 1 /\ p <= Len(t) /\ t[p] = c

\* /\[([^\[\]]*)\]\((.*?)\)/gm  ->  '$1'
LinkLabelEnd(t, p) ==
    \* index of the ] closing the label that opens at p, or 0
    IF ~At(t, p, "[") THEN 0
    ELSE LET stop == IF \E k \in (p+1)..Len(t) : t[k] \in {"[", "]"}
                     THEN CHOOSE k \in (p+1)..Len(t) :
                            t[k] \in {"[", "]"} /\ \A j \in (p+1)..(k-1) : t[j] \notin {"[", "]"}
                     ELSE 0
         IN IF stop # 0 /\ t[stop] = "]" THEN stop ELSE 0

LinkMatch(t, p) ==
    LET rb == LinkLabelEnd(t, p)
    IN IF rb = 0 \/ ~At(t, rb + 1, "(") THEN 0 ELSE IndexOf(t, ")", rb + 2)

LinkLabel(t, p, e) == SubSeq(t, p + 1, LinkLabelEnd(t, p) - 1)

\* /#/g (token variant)
HashMatch(t, p) == IF At(t, p, "#") THEN p ELSE 0

\* /^#/gm (flag variant): ^ is the start of the text or the place after a
\* line terminator
LeadingHashMatch(t, p) ==
    IF At(t, p, "#") /\ (p = 1 \/ t[p - 1] \in LineTerminators) THEN p ELSE 0

\* /\(http(.*?)\)/gm
UrlMatch(t, p) ==
    IF At(t, p, "(") /\ At(t, p+1, "h") /\ At(t, p+2, "t") /\ At(t, p+3, "t") /\ At(t, p+4, "p")
    THEN IndexOf(t, ")", p + 5)
    ELSE 0

\* /!\[(.*?)\]\((.*?)\)/gm
ImageMatch(t, p) ==
    IF At(t, p, "!") /\ At(t, p+1, "[")
    THEN LET k == IndexOf2(t, "]", "(", p + 2)
         IN IF k = 0 THEN 0 ELSE IndexOf(t, ")", k + 2)
    ELSE 0

\* /!\[\[(.*?)\]\]/gm
EmbedMatch(t, p) ==
    IF At(t, p, "!") /\ At(t, p+1, "[") /\ At(t, p+2, "[")
    THEN LET k == IndexOf2(t, "]", "]", p + 3)
         IN IF k = 0 THEN 0 ELSE k + 1
    ELSE 0

\* the match of expression `re` at index p of t (0: none)
Match(re, t, p) ==
    CASE re = "link" -> LinkMatch(t, p)
      [] re = "hash" -> HashMatch(t, p)
      [] re = "leadingHash" -> LeadingHashMatch(t, p)
      [] re = "url" -> UrlMatch(t, p)
      [] re = "image" -> ImageMatch(t, p)
      [] re = "embed" -> EmbedMatch(t, p)

\* the replacement text for the match t[p..e] of expression `re`
Replacement(re, t, p, e) == IF re = "link" THEN LinkLabel(t, p, e) ELSE <<>>

\* String.prototype.replace with a global expression: matches are taken left
\* to right, each search resuming after the previous match
RECURSIVE ReplaceFrom(_, _, _)
ReplaceFrom(re, t, p) ==
    IF p > Len(t) THEN <<>>
    ELSE IF Match(re, t, p) = 0 THEN <<t[p]>> \o ReplaceFrom(re, t, p + 1)
    ELSE Replacement(re, t, p, Match(re, t, p)) \o ReplaceFrom(re, t, Match(re, t, p) + 1)

replace(t, re) == ReplaceFrom(re, t, 1)

\* cleanUpTextToken with the (http...) rule applied before the link rule
cleanUpTextTokenUrlFirst(text) ==
    replace(replace(replace(replace(replace(text, "url"), "link"), "hash"), "image"), "embed")

cleanUpTextToken(text) ==
    replace(replace(replace(replace(replace(text, "link"), "hash"), "url"), "image"), "embed")

cleanUpTextFlag(text) ==
    replace(replace(replace(replace(replace(text, "link"), "leadingHash"), "url"), "image"), "embed")

----------------------------------------------------------------------------
\* Text Span Selector (StartSpeech, before the loop)

endOfDoc(d) == Pos(lastLine(d), Len(getLine(d, lastLine(d))))

\* the span to vocalize and the cursor it starts at, from the selection
\* (anchor, head) and the remembered cursor
SelectSpan(d, remembered, anchor, head) ==
    IF Len(getSelection(d, anchor, head)) = 0
    THEN IF remembered # NullCursor
         THEN [text |-> getRange(d, remembered, endOfDoc(d)),
               cursor |-> remembered, currentPos |-> TRUE]
         ELSE [text |-> getValue(d), cursor |-> Pos(0, 0), currentPos |-> TRUE]
    ELSE [text |-> getSelection(d, anchor, head),
          cursor |-> getCursor(anchor, head), currentPos |-> FALSE]

removeNL(t) == SelectSeq(t, LAMBDA c : c # NL)

\* "try to fix cursor": the cursor is moved up to the span's first line when
\* the span's first line differs from the rest of the cursor's line
FixCursor(d, lines, cur) ==
    LET line == lines[1]
        allLine == getLine(d, cur.line)
        cursorLine == removeNL(getRange(d, cur, Pos(cur.line, Len(allLine))))
    IN IF line # cursorLine THEN Pos(cur.line - Len(lines) + 1, 0) ELSE cur

StartCursorToken(d, lines, span) ==
    IF Len(lines) > 0 /\ ~span.currentPos THEN FixCursor(d, lines, span.cursor)
    ELSE span.cursor

StartCursorFlag(d, lines, span) ==
    IF Len(lines) > 0 THEN FixCursor(d, lines, span.cursor) ELSE span.cursor

----------------------------------------------------------------------------
\* Speech Service (window.speechSynthesis) and session records

Elems(q) == { q[k] : k \in 1..Len(q) }

\* speechSynthesis.cancel(): every utterance leaves the queue; for each of them
\* the platform either still delivers `end` (kept) or never does (only `error`,
\* which getNextAudio does not listen to)
CancelKeeps(q, keep) == keep \subseteq Elems(q)

NoSession ==
    [pc |-> "idle", exit |-> "", lines |-> <<>>, cur |-> NullCursor, i |-> 0,
     curTime |-> 0, via |-> "", selEmpty |-> FALSE, spanLine |-> 0,
     headAtEnd |-> FALSE, caret |-> NullCursor]

\* History fields of a session record: via (the command), selEmpty (the
\* selection was empty), spanLine (the note line the selection starts on),
\* headAtEnd (the cursor was at the end of the selection), caret (where the
\* editor's cursor was when the command was invoked).

\* every earlier loop has returned or was cancelled or superseded
Settled(s) ==
    \/ sess[s].pc = "done"
    \/ sess[s].pc = "await" /\ (s \in userCancelled \/ s < nsess)
Quiet == \A s \in 1..nsess : Settled(s)

\* the latest invocation ended in the catch block and no loop is running
Retry ==
    /\ nsess >= 1 /\ sess[nsess].pc = "failed"
    /\ \A s \in 1..nsess : sess[s].pc # "await" \/ s \in userCancelled

NewSession(via, anchor, head, lines, cur, curTime) ==
    [pc |-> "run", exit |-> "", lines |-> lines, cur |-> cur, i |-> 0,
     curTime |-> curTime, via |-> via,
     selEmpty |-> (Len(getSelection(doc, anchor, head)) = 0),
     spanLine |-> SelFrom(anchor, head).line,
     headAtEnd |-> (head = SelTo(anchor, head)),
     caret |-> head]

\* Voice profiles of the platform: [name, lang]
NoVoice == [name |-> "", lang |-> ""]

\* Array.prototype.find: the first element that satisfies the test, or
\* undefined (NoVoice)
FindByName(vs, code) ==
    IF \E k \in 1..Len(vs) : vs[k].name = code
    THEN vs[CHOOSE k \in 1..Len(vs) :
                vs[k].name = code /\ \A j \in 1..(k-1) : vs[j].name # code]
    ELSE NoVoice

FindByLang(vs, lang) ==
    IF \E k \in 1..Len(vs) : vs[k].lang = lang
    THEN vs[CHOOSE k \in 1..Len(vs) :
                vs[k].lang = lang /\ \A j \in 1..(k-1) : vs[j].lang # lang]
    ELSE NoVoice

\* /[a-zA-Z]/
EnglishChars ==
    {"a","b","c","d","e","f","g","h","i","j","k","l","m",
     "n","o","p","q","r","s","t","u","v","w","x","y","z",
     "A","B","C","D","E","F","G","H","I","J","K","L","M",
     "N","O","P","Q","R","S","T","U","V","W","X","Y","Z"}

englishCharsSum(sentence) ==
    Cardinality({ k \in 1..Len(sentence) : sentence[k] \in EnglishChars })

\* englishCharsSum / sentence.length > 0.65; for the empty sentence the
\* quotient is NaN and the comparison is false
MostlyEnglish(sentence) ==
    Len(sentence) > 0 /\ englishCharsSum(sentence) * 100 > 65 * Len(sentence)

\* the voice getNextAudio ends up with: the configured one, replaced by the
\* result of the en-US lookup when the sentence is mostly English letters
VoiceFor(sentence, code, vs) ==
    IF MostlyEnglish(sentence) THEN FindByLang(vs, "en-US") ELSE FindByName(vs, code)

\* getNextAudio: the lang and voice of the utterance handed to speak(); both
\* stay unset ("") when no voice was found
getNextAudio(sentence, code, vs) ==
    LET voice == VoiceFor(sentence, code, vs)
    IN IF voice # NoVoice
       THEN [lang |-> voice.lang, voice |-> voice.name]
       ELSE [lang |-> "", voice |-> ""]

\* a speechSynthesis.speak() call: audio is the utterance's [lang, voice]
Request(s, i, text, line, audio) ==
    [sid |-> s, idx |-> i, text |-> text, line |-> line,
     lang |-> audio.lang, voice |-> audio.voice]
Utterance(s, i) == [sid |-> s, idx |-> i]

----------------------------------------------------------------------------
\* Token variant (src/unnamed/part_001)

\* LoopToken with a line that is empty once cleaned skipped instead of spoken
RECURSIVE LoopTokenSkipsEmpty(_, _, _, _, _, _, _)
LoopTokenSkipsEmpty(s, rec, st, q, ec, reqs, throws) ==
    IF rec.i >= Len(rec.lines)
    THEN [rec |-> [rec EXCEPT !.pc = "done", !.exit = "finished"],
          startedTime |-> 0, queue |-> q, edCursor |-> ec, requests |-> reqs, notice |-> 0]
    ELSE IF st # rec.curTime
    THEN [rec |-> [rec EXCEPT !.pc = "done", !.exit = "superseded"],
          startedTime |-> st, queue |-> q, edCursor |-> ec, requests |-> reqs, notice |-> 0]
    ELSE IF cleanUpTextToken(rec.lines[rec.i + 1]) = <<>>
    THEN LoopTokenSkipsEmpty(s, [rec EXCEPT !.i = @ + 1], st, q, ec, reqs, throws)
    ELSE LET textForSpeech == cleanUpTextToken(rec.lines[rec.i + 1])
             nextCursor == Pos(rec.cur.line + rec.i, 0)
             ec1 == IF followCursor THEN setCursor(doc, nextCursor) ELSE ec
         IN IF throws = "setCursor" /\ followCursor
            THEN [rec |-> [rec EXCEPT !.pc = "failed"],
                  startedTime |-> st, queue |-> q, edCursor |-> ec, requests |-> reqs,
                  notice |-> 1]
            ELSE IF throws = "speak"
            THEN [rec |-> [rec EXCEPT !.pc = "failed"],
                  startedTime |-> st, queue |-> q, edCursor |-> ec1, requests |-> reqs,
                  notice |-> 1]
            ELSE [rec |-> [rec EXCEPT !.pc = "await"],
                  startedTime |-> st,
                  queue |-> Append(q, Utterance(s, rec.i)),
                  edCursor |-> ec1,
                  requests |-> Append(reqs, Request(s, rec.i, textForSpeech, nextCursor.line,
                                               getNextAudio(textForSpeech, defaultLanguage, voices))),
                  notice |-> 0]

\* The for loop of StartSpeech from the loop test of iteration rec.i up to the
\* next await, return or throw. st, q, ec, reqs are startedTime, the queue, the
\* editor cursor and the request history when the loop is entered; throws is
\* "none", "setCursor" (editor.setCursor throws) or "speak" (getNextAudio
\* throws).
LoopToken(s, rec, st, q, ec, reqs, throws) ==
    IF rec.i >= Len(rec.lines)
    THEN [rec |-> [rec EXCEPT !.pc = "done", !.exit = "finished"],
          startedTime |-> 0, queue |-> q, edCursor |-> ec, requests |-> reqs, notice |-> 0]
    ELSE IF st # rec.curTime
    THEN [rec |-> [rec EXCEPT !.pc = "done", !.exit = "superseded"],
          startedTime |-> st, queue |-> q, edCursor |-> ec, requests |-> reqs, notice |-> 0]
    ELSE LET textForSpeech == cleanUpTextToken(rec.lines[rec.i + 1])
             nextCursor == Pos(rec.cur.line + rec.i, 0)
             ec1 == IF followCursor THEN setCursor(doc, nextCursor) ELSE ec
         IN IF throws = "setCursor" /\ followCursor
            THEN [rec |-> [rec EXCEPT !.pc = "failed"],
                  startedTime |-> st, queue |-> q, edCursor |-> ec, requests |-> reqs,
                  notice |-> 1]
            ELSE IF throws = "speak"
            THEN [rec |-> [rec EXCEPT !.pc = "failed"],
                  startedTime |-> st, queue |-> q, edCursor |-> ec1, requests |-> reqs,
                  notice |-> 1]
            ELSE [rec |-> [rec EXCEPT !.pc = "await"],
                  startedTime |-> st,
                  queue |-> Append(q, Utterance(s, rec.i)),
                  edCursor |-> ec1,
                  requests |-> Append(reqs, Request(s, rec.i, textForSpeech, nextCursor.line,
                                               getNextAudio(textForSpeech, defaultLanguage, voices))),
                  notice |-> 0]

\* StartSpeech up to its first await, return or throw. `remembered` is
\* this.cursor when StartSpeech is entered; fail is "none", "source" (a Text
\* Source call at the top throws, before the token is written), "fix"
\* (getLine or getRange throws in the cursor fix, after the token is written),
\* "setCursor" (editor.setCursor throws) or "speak" (the speak request
\* throws); t is the value Date.now() returns, which never runs backwards.
StartSpeechToken(via, remembered, anchor, head, fail, keep, t) ==
    /\ nsess < MaxSessions
    /\ t >= now
    /\ now' = IF fail = "source" THEN now ELSE t
    /\ IF startedTime # 0 /\ fail # "source" THEN CancelKeeps(queue, keep) ELSE keep = {}
    /\ nsess' = nsess + 1
    /\ cursor' = remembered
    /\ IF fail = "source"
       THEN /\ sess' = [sess EXCEPT ![nsess + 1] =
                            [NewSession(via, anchor, head, <<>>, NullCursor, 0)
                                EXCEPT !.pc = "failed"]]
            /\ notices' = notices + 1
            /\ edCursor' = head
            /\ UNCHANGED <<startedTime, queue, ending, requests>>
       ELSE LET span == SelectSpan(doc, remembered, anchor, head)
                lines == split(span.text)
                q1 == IF startedTime # 0 THEN <<>> ELSE queue
                curTime == t
                fixThrows == fail = "fix" /\ Len(lines) > 0 /\ ~span.currentPos
                cur == IF fixThrows THEN span.cursor ELSE StartCursorToken(doc, lines, span)
                rec == NewSession(via, anchor, head, lines, cur, curTime)
                result == IF fixThrows
                          THEN [rec |-> [rec EXCEPT !.pc = "failed"], startedTime |-> curTime,
                                queue |-> q1, edCursor |-> head, requests |-> requests,
                                notice |-> 1]
                          ELSE LoopToken(nsess + 1, rec, curTime, q1, head, requests, fail)
            IN \E r \in {result} :
               /\ fail # "none" => r.rec.pc = "failed"
               /\ sess' = [sess EXCEPT ![nsess + 1] = r.rec]
               /\ startedTime' = r.startedTime
               /\ queue' = r.queue
               /\ ending' = ending \cup keep
               /\ edCursor' = r.edCursor
               /\ requests' = r.requests
               /\ notices' = notices + r.notice
    /\ UNCHANGED <<doc, followCursor, voices, defaultLanguage, cleaned, speaking, userCancelled>>

\* the selections the user makes before a command: none, with the cursor at
\* the start of the last line, or the whole note selected forwards
Selections(d) ==
    { <<Pos(lastLine(d), 0), Pos(lastLine(d), 0)>>, <<Pos(0, 0), endOfDoc(d)>> }

\* Date.now() at a command: the value it returned last, or a later one (the
\* first command's reading is the clock's origin)
Clock == IF nsess = 0 THEN {now} ELSE {now, now + 1}

\* command "Speech: Speech the selection text or the whole text"
StartSpeechCommand ==
    \E sel \in Selections(doc), keep \in SUBSET Elems(queue), t \in Clock :
        StartSpeechToken("start", cursor, sel[1], sel[2], "none", keep, t)

\* command "Speech: Speech from current position": SpeechFromCurrentLine
SpeechFromCurrentLineCommand ==
    \E sel \in Selections(doc), keep \in SUBSET Elems(queue), t \in Clock :
        StartSpeechToken("from", getCursor(sel[1], sel[2]), sel[1], sel[2], "none", keep, t)

\* either speak command, with a call inside StartSpeech throwing
SpeakCommandThrows ==
    \E sel \in Selections(doc), fail \in {"source", "fix", "setCursor", "speak"},
       keep \in SUBSET Elems(queue), t \in Clock :
        \/ StartSpeechToken("start", cursor, sel[1], sel[2], fail, keep, t)
        \/ StartSpeechToken("from", getCursor(sel[1], sel[2]), sel[1], sel[2], fail, keep, t)

Awaiting == { s \in 1..nsess : sess[s].pc = "await" }

\* onCancelCallback
onCancelCallbackToken(keep) ==
    /\ CancelKeeps(queue, keep)
    /\ startedTime' = 0
    /\ queue' = <<>>
    /\ ending' = ending \cup keep
    /\ userCancelled' = userCancelled \cup Awaiting
    /\ UNCHANGED <<doc, followCursor, voices, defaultLanguage, cleaned, now, speaking, cursor, edCursor, sess, nsess,
                   requests, notices>>

\* command "Speech: Cancel the current speech"
CancelCommand == \E keep \in SUBSET Elems(queue) : onCancelCallbackToken(keep)

\* The promise of getNextAudio resolves (audio.onend) for utterance u and the
\* loop of its session runs on: this.cursor = null, i++, and the next iteration.
\* q and e are the queue and the pending `end` events once u's has fired.
ResumeToken(u, q, e, throws) ==
    /\ sess[u.sid].pc = "await"
    /\ LET rec == [sess[u.sid] EXCEPT !.i = @ + 1]
           result == LoopToken(u.sid, rec, startedTime, q, edCursor, requests, throws)
       IN \E r \in {result} :
          /\ sess' = [sess EXCEPT ![u.sid] = r.rec]
          /\ startedTime' = r.startedTime
          /\ queue' = r.queue
          /\ edCursor' = r.edCursor
          /\ requests' = r.requests
          /\ notices' = notices + r.notice
          /\ throws # "none" => r.rec.pc = "failed"
    /\ cursor' = NullCursor
    /\ ending' = e
    /\ UNCHANGED <<doc, followCursor, voices, defaultLanguage, cleaned, now, speaking, nsess, userCancelled>>

\* the utterance at the head of the queue has been spoken
UtteranceEnd ==
    /\ Len(queue) > 0
    /\ ResumeToken(Head(queue), Tail(queue), ending, "none")

\* a cancelled utterance's `end` event arrives
CancelledEnd ==
    \E u \in ending : ResumeToken(u, queue, ending \ {u}, "none")

\* an `end` event arrives and setCursor or the speak request of the next
\* line throws
ResumeThrows ==
    \E throws \in {"setCursor", "speak"} :
        \/ Len(queue) > 0 /\ ResumeToken(Head(queue), Tail(queue), ending, throws)
        \/ \E u \in ending : ResumeToken(u, queue, ending \ {u}, throws)

DocB == << <<"#", "a">>, <<>> >>

\* DEFAULT_SETTINGS.defaultLanguage and a platform that has that voice
DefaultVoiceName == "Microsoft David - English (United States)"
DefaultVoices ==
    << [name |-> DefaultVoiceName, lang |-> "en-US"],
       [name |-> "Microsoft Huihui - Chinese (Simplified, PRC)", lang |-> "zh-CN"] >>

\* LanguageTranslatorSettingsTab.allLanguages: the options of the `Default
\* Language` dropdown
allLanguages ==
    {"Microsoft David - English (United States)",
     "Microsoft Mark - English (United States)",
     "Microsoft Zira - English (United States)",
     "Microsoft Huihui - Chinese (Simplified, PRC)",
     "Microsoft Kangkang - Chinese (Simplified, PRC)",
     "Microsoft Yaoyao - Chinese (Simplified, PRC)"}

\* the options the user picks among: a voice of each language
PickedLanguages ==
    {v \in allLanguages : v \in {"Microsoft David - English (United States)",
                                 "Microsoft Huihui - Chinese (Simplified, PRC)"}}

\* settings tab, `Default Language` dropdown: onChange(value); it may be used
\* at any time, also while a session awaits
SetDefaultLanguage ==
    /\ \E value \in PickedLanguages : defaultLanguage' = value
    /\ UNCHANGED <<doc, followCursor, voices, cleaned, now, startedTime, speaking, cursor,
                   edCursor, sess, nsess, queue, ending, requests, notices,
                   userCancelled>>

\* settings tab, `Follow cursor` dropdown: onChange(value)
SetFollowCursor ==
    /\ \E value \in {"true", "false"} : followCursor' = (value = "true")
    /\ UNCHANGED <<doc, voices, defaultLanguage, cleaned, now, startedTime, speaking,
                   cursor, edCursor, sess, nsess, queue, ending, requests, notices,
                   userCancelled>>

InitCommon ==
    /\ now = 1
    /\ startedTime = 0
    /\ speaking = FALSE
    /\ cursor = NullCursor
    /\ edCursor = Pos(0, 0)
    /\ sess = [s \in 1..MaxSessions |-> NoSession]
    /\ nsess = 0
    /\ queue = <<>>
    /\ ending = {}
    /\ requests = <<>>
    /\ notices = 0
    /\ userCancelled = {}
    /\ cleaned = <<>>

Init ==
    /\ InitCommon /\ doc = DocB /\ followCursor \in BOOLEAN
    /\ voices = DefaultVoices /\ defaultLanguage = DefaultVoiceName

\* no call of the Text Source or of the Speech Service throws
Next ==
    \/ StartSpeechCommand
    \/ SpeechFromCurrentLineCommand
    \/ CancelCommand
    \/ UtteranceEnd
    \/ CancelledEnd
    \/ SetDefaultLanguage
    \/ SetFollowCursor

Spec == Init /\ [][Next]_vars

\* calls may throw
NextThrows ==
    \/ Next
    \/ SpeakCommandThrows
    \/ ResumeThrows

SpecThrows == Init /\ [][NextThrows]_vars

----------------------------------------------------------------------------
\* Flag variant (src/src/main.ts)

\* The for loop of StartSpeech from the loop test of iteration rec.i up to the
\* next await, return or throw; sp is this.speaking. With the flag down every
\* remaining iteration takes `continue` and the function returns.
LoopFlag(s, rec, sp, q, ec, reqs, throws) ==
    IF rec.i >= Len(rec.lines)
    THEN [rec |-> [rec EXCEPT !.pc = "done", !.exit = "finished"],
          queue |-> q, edCursor |-> ec, requests |-> reqs, notice |-> 0]
    ELSE IF ~sp
    THEN [rec |-> [rec EXCEPT !.pc = "done", !.exit = "skipped", !.i = Len(rec.lines)],
          queue |-> q, edCursor |-> ec, requests |-> reqs, notice |-> 0]
    ELSE LET textForSpeech == cleanUpTextFlag(rec.lines[rec.i + 1])
             nextCursor == Pos(rec.cur.line + rec.i, 0)
             ec1 == setCursor(doc, nextCursor)
         IN IF throws = "setCursor"
            THEN [rec |-> [rec EXCEPT !.pc = "failed"],
                  queue |-> q, edCursor |-> ec, requests |-> reqs, notice |-> 1]
            ELSE IF throws = "speak"
            THEN [rec |-> [rec EXCEPT !.pc = "failed"],
                  queue |-> q, edCursor |-> ec1, requests |-> reqs, notice |-> 1]
            ELSE [rec |-> [rec EXCEPT !.pc = "await"],
                  queue |-> Append(q, Utterance(s, rec.i)),
                  edCursor |-> ec1,
                  requests |-> Append(reqs, Request(s, rec.i, textForSpeech, nextCursor.line,
                                               getNextAudio(textForSpeech, defaultLanguage, voices))),
                  notice |-> 0]

StartSpeechFlag(via, remembered, anchor, head, fail) ==
    /\ nsess < MaxSessions
    /\ nsess' = nsess + 1
    /\ cursor' = remembered
    /\ IF fail = "source"
       THEN /\ sess' = [sess EXCEPT ![nsess + 1] =
                            [NewSession(via, anchor, head, <<>>, NullCursor, 0)
                                EXCEPT !.pc = "failed"]]
            /\ notices' = notices + 1
            /\ edCursor' = head
            /\ UNCHANGED <<speaking, queue, requests>>
       ELSE LET span == SelectSpan(doc, remembered, anchor, head)
                lines == split(span.text)
                fixThrows == fail = "fix" /\ Len(lines) > 0
                cur == IF fixThrows THEN span.cursor ELSE StartCursorFlag(doc, lines, span)
                rec == NewSession(via, anchor, head, lines, cur, 0)
                result == IF fixThrows
                          THEN [rec |-> [rec EXCEPT !.pc = "failed"], queue |-> queue,
                                edCursor |-> head, requests |-> requests, notice |-> 1]
                          ELSE LoopFlag(nsess + 1, rec, TRUE, queue, head, requests, fail)
            IN \E r \in {result} :
               /\ fail # "none" => r.rec.pc = "failed"
               /\ sess' = [sess EXCEPT ![nsess + 1] = r.rec]
               /\ speaking' = TRUE
               /\ queue' = r.queue
               /\ edCursor' = r.edCursor
               /\ requests' = r.requests
               /\ notices' = notices + r.notice
    /\ UNCHANGED <<doc, followCursor, voices, defaultLanguage, cleaned, now, startedTime, ending, userCancelled>>

\* command "Speech: Speech the text"
StartSpeechCommandFlag ==
    \E sel \in Selections(doc) : StartSpeechFlag("start", cursor, sel[1], sel[2], "none")

\* command "Speech: Speech the text from current pos": SpeechFromCurrentLine
SpeechFromCurrentLineCommandFlag ==
    \E sel \in Selections(doc) :
        StartSpeechFlag("from", getCursor(sel[1], sel[2]), sel[1], sel[2], "none")

SpeakCommandThrowsFlag ==
    \E sel \in Selections(doc), fail \in {"source", "fix", "setCursor", "speak"} :
        \/ StartSpeechFlag("start", cursor, sel[1], sel[2], fail)
        \/ StartSpeechFlag("from", getCursor(sel[1], sel[2]), sel[1], sel[2], fail)

onCancelCallbackFlag(keep) ==
    /\ CancelKeeps(queue, keep)
    /\ speaking' = FALSE
    /\ queue' = <<>>
    /\ ending' = ending \cup keep
    /\ userCancelled' = userCancelled \cup Awaiting
    /\ UNCHANGED <<doc, followCursor, voices, defaultLanguage, cleaned, now, startedTime, cursor, edCursor, sess, nsess,
                   requests, notices>>

\* command "Speech: Cancel ongoin speech"
CancelCommandFlag == \E keep \in SUBSET Elems(queue) : onCancelCallbackFlag(keep)

ResumeFlag(u, q, e, throws) ==
    /\ sess[u.sid].pc = "await"
    /\ LET rec == [sess[u.sid] EXCEPT !.i = @ + 1]
           result == LoopFlag(u.sid, rec, speaking, q, edCursor, requests, throws)
       IN \E r \in {result} :
          /\ sess' = [sess EXCEPT ![u.sid] = r.rec]
          /\ queue' = r.queue
          /\ edCursor' = r.edCursor
          /\ requests' = r.requests
          /\ notices' = notices + r.notice
          /\ throws # "none" => r.rec.pc = "failed"
    /\ cursor' = NullCursor
    /\ ending' = e
    /\ UNCHANGED <<doc, followCursor, voices, defaultLanguage, cleaned, now, startedTime, speaking, nsess,
                   userCancelled>>

UtteranceEndFlag ==
    /\ Len(queue) > 0
    /\ ResumeFlag(Head(queue), Tail(queue), ending, "none")

CancelledEndFlag ==
    \E u \in ending : ResumeFlag(u, queue, ending \ {u}, "none")

ResumeThrowsFlag ==
    \E throws \in {"setCursor", "speak"} :
        \/ Len(queue) > 0 /\ ResumeFlag(Head(queue), Tail(queue), ending, throws)
        \/ \E u \in ending : ResumeFlag(u, queue, ending \ {u}, throws)

InitFlag ==
    /\ InitCommon /\ doc = DocB /\ followCursor = TRUE
    /\ voices = DefaultVoices /\ defaultLanguage = DefaultVoiceName

NextFlag ==
    \/ StartSpeechCommandFlag
    \/ SpeechFromCurrentLineCommandFlag
    \/ CancelCommandFlag
    \/ UtteranceEndFlag
    \/ CancelledEndFlag
    \/ SetDefaultLanguage

SpecFlag == InitFlag /\ [][NextFlag]_vars

NextFlagThrows ==
    \/ NextFlag
    \/ SpeakCommandThrowsFlag
    \/ ResumeThrowsFlag

SpecFlagThrows == InitFlag /\ [][NextFlagThrows]_vars

----------------------------------------------------------------------------
\* Legacy variant (src/unnamed/part_000)

MAX_CHARACTERS == 1000

\* onEditorCallback with the selection anchor..head. throws is "none",
\* "getSelection" (editor.getSelection, the first statement of the try, throws:
\* the length is never tested) or "speak" (building or speaking the utterance
\* throws, after the length test)
onEditorCallback(anchor, head, throws, viaStop) ==
    /\ nsess < MaxSessions
    /\ nsess' = nsess + 1
    /\ edCursor' = head
    /\ LET selection == getSelection(doc, anchor, head)
           rec == [NewSession(IF viaStop THEN "stop" ELSE "start", anchor, head,
                              <<selection>>, head, 0) EXCEPT !.pc = "done"]
       IN IF throws = "getSelection"
          THEN /\ notices' = notices + 1
               /\ sess' = [sess EXCEPT ![nsess + 1] =
                               [NewSession(IF viaStop THEN "stop" ELSE "start", anchor, head,
                                           <<>>, head, 0) EXCEPT !.pc = "failed"]]
               /\ UNCHANGED <<queue, requests>>
          ELSE IF Len(selection) > MAX_CHARACTERS
          THEN /\ notices' = notices + 1
               /\ sess' = [sess EXCEPT ![nsess + 1] = rec]
               /\ UNCHANGED <<queue, requests>>
          ELSE IF throws = "speak"
          THEN /\ notices' = notices + 1
               /\ sess' = [sess EXCEPT ![nsess + 1] = [rec EXCEPT !.pc = "failed"]]
               /\ UNCHANGED <<queue, requests>>
          ELSE /\ queue' = Append(queue, Utterance(nsess + 1, 0))
               /\ requests' = Append(requests, Request(nsess + 1, 0, selection, head.line,
                                                   [lang |-> defaultLanguage, voice |-> ""]))
               /\ sess' = [sess EXCEPT ![nsess + 1] = rec]
               /\ UNCHANGED notices
    /\ UNCHANGED <<doc, followCursor, voices, defaultLanguage, cleaned, now, startedTime, speaking, cursor, ending,
                   userCancelled>>

onCancelCallbackLegacy ==
    /\ queue' = <<>>
    /\ UNCHANGED <<doc, followCursor, voices, defaultLanguage, cleaned, now, startedTime, speaking, cursor, edCursor, sess,
                   nsess, ending, requests, notices, userCancelled>>

\* onload: the editorCallback registered for each command id
CommandsLegacy ==
    [start |-> "onEditorCallback",    \* editor-say-it-start-command
     stop |-> "onEditorCallback"]     \* editor-say-it-stop-command

TriggerLegacy(cmd) ==
    IF CommandsLegacy[cmd] = "onEditorCallback"
    THEN \E anchor \in Positions(doc), head \in Positions(doc),
            throws \in {"none", "getSelection", "speak"} :
            onEditorCallback(anchor, head, throws, cmd = "stop")
    ELSE onCancelCallbackLegacy

\* command "Speak out the text"
StartCommandLegacy == TriggerLegacy("start")

\* command "Cancel speak"
StopCommandLegacy == TriggerLegacy("stop")

\* an utterance has been spoken; nothing in this variant listens
UtteranceEndLegacy ==
    /\ Len(queue) > 0
    /\ queue' = Tail(queue)
    /\ UNCHANGED <<doc, followCursor, voices, defaultLanguage, cleaned, now, startedTime, speaking, cursor, edCursor, sess,
                   nsess, ending, requests, notices, userCancelled>>

\* the codes of ./langCodes, the options of the `Default Language` dropdown
langCodes == {"en", "zh"}

\* settings tab, `Default Language` dropdown: onChange(value) stores the
\* language whose code is value, when there is one
SetDefaultLanguageLegacy ==
    /\ \E value \in langCodes :
          defaultLanguage' = IF \E x \in langCodes : x = value THEN value
                             ELSE defaultLanguage
    /\ UNCHANGED <<doc, followCursor, voices, cleaned, now, startedTime, speaking, cursor,
                   edCursor, sess, nsess, queue, ending, requests, notices,
                   userCancelled>>

NextLegacy ==
    \/ StartCommandLegacy
    \/ StopCommandLegacy
    \/ UtteranceEndLegacy
    \/ SetDefaultLanguageLegacy

\* The state once onload has returned: DEFAULT_SETTINGS.defaultLanguage.code,
\* and one Notice when the fetch of getToken failed
InitLegacy ==
    /\ now = 1 /\ startedTime = 0 /\ speaking = FALSE
    /\ cursor = NullCursor /\ edCursor = Pos(0, 0)
    /\ sess = [s \in 1..MaxSessions |-> NoSession] /\ nsess = 0
    /\ queue = <<>> /\ ending = {} /\ requests = <<>>
    /\ notices \in {0, 1}
    /\ userCancelled = {} /\ cleaned = <<>>
    /\ doc = DocB /\ followCursor = TRUE
    /\ voices = DefaultVoices /\ defaultLanguage = "en"

SpecLegacy == InitLegacy /\ [][NextLegacy]_vars

----------------------------------------------------------------------------
\* Span selection alone (token variant): one speak command on any selection
\* of a note, run to its end

DocA == << <<"b">>, <<"a", "b">> >>
DocC == << <<"a">>, <<"b">>, <<"c">> >>

SpeakSelection ==
    /\ nsess = 0
    /\ \E anchor \in Positions(doc), head \in Positions(doc) :
          StartSpeechToken("start", cursor, anchor, head, "none", {}, now)

InitSpan ==
    /\ InitCommon /\ doc \in {DocA, DocC} /\ followCursor = TRUE
    /\ voices = DefaultVoices /\ defaultLanguage = DefaultVoiceName

NextSpan ==
    \/ SpeakSelection
    \/ UtteranceEnd

SpecSpan == InitSpan /\ [][NextSpan]_vars

\* the same command with the followCursor setting on or off
InitFollow ==
    /\ InitCommon /\ doc \in {DocA, DocC} /\ followCursor \in BOOLEAN
    /\ voices = DefaultVoices /\ defaultLanguage = DefaultVoiceName

SpecFollow == InitFollow /\ [][NextSpan]_vars

----------------------------------------------------------------------------
\* Voice selection alone (token variant): one speak-whole-note command under
\* any registry of voices and either configured voice, run to its end

MaxVoices == 2

VoiceEnUS == [name |-> DefaultVoiceName, lang |-> "en-US"]
VoiceEnGB == [name |-> "Daniel", lang |-> "en-GB"]
VoiceZhCN == [name |-> "Microsoft Huihui - Chinese (Simplified, PRC)", lang |-> "zh-CN"]

\* every registry getVoices() may return: up to MaxVoices profiles in any
\* order; it is empty until the platform has loaded its voices
Registries ==
    UNION { [1..n -> {VoiceEnUS, VoiceEnGB, VoiceZhCN}] : n \in 0..MaxVoices }

\* lines whose share of ASCII letters is 2/3, 1/2, 1 and 0/0
DocV == << <<"a", "b", "1">>, <<"a", "1">>, <<"a", "b">>, <<>> >>

SpeakWholeNote ==
    /\ nsess = 0
    /\ StartSpeechToken("start", NullCursor, Pos(0, 0), Pos(0, 0), "none", {}, now)

InitVoice ==
    /\ InitCommon /\ doc \in {DocV, DocB} /\ followCursor = TRUE
    /\ voices \in Registries
    /\ defaultLanguage \in {VoiceEnUS.name, VoiceZhCN.name}

NextVoice ==
    \/ SpeakWholeNote
    \/ UtteranceEnd

SpecVoice == InitVoice /\ [][NextVoice]_vars

----------------------------------------------------------------------------
\* The markup cleaner alone: cleanUpText of either variant applied to a line,
\* and then again to what it returned

MaxLineLen == 5

\* the markup characters and the letters of "http"
MarkupChars == {"[", "]", "(", ")", "!", "#", "h", "t", "p"}

MarkupLines == UNION { [1..n -> MarkupChars] : n \in 0..MaxLineLen }

\* "![alt](http://x.com/i.png) text ![[Embed]]"
ImageEmbedLine ==
    <<"!", "[", "a", "l", "t", "]", "(", "h", "t", "t", "p", ":", "/", "/", "x", ".",
      "c", "o", "m", "/", "i", ".", "p", "n", "g", ")", " ", "t", "e", "x", "t", " ",
      "!", "[", "[", "E", "m", "b", "e", "d", "]", "]">>

\* "![alt](x) text", "text ![[Embed]]", "[hello](http://x.com)"
ImageLine ==
    <<"!", "[", "a", "l", "t", "]", "(", "x", ")", " ", "t", "e", "x", "t">>
EmbedLine ==
    <<"t", "e", "x", "t", " ", "!", "[", "[", "E", "m", "b", "e", "d", "]", "]">>
LinkLine ==
    <<"[", "h", "e", "l", "l", "o", "]", "(", "h", "t", "t", "p", ":", "/", "/", "x",
      ".", "c", "o", "m", ")">>

\* "(http\r)" and "a\r#b": lines that hold a line terminator other than \n
ReturnInUrlLine == <<"(", "h", "t", "t", "p", "\r", ")">>
ReturnBeforeHashLine == <<"a", "\r", "#", "b">>

cleanUpText(variant, text) ==
    IF variant = "token" THEN cleanUpTextToken(text) ELSE cleanUpTextFlag(text)

\* cleanUpText of one variant is applied to the line, or to its last result
Clean(variant) ==
    /\ Len(cleaned) < 2
    /\ cleaned # <<>> => cleaned[1].variant = variant
    /\ cleaned' = Append(cleaned,
            [variant |-> variant,
             input |-> IF cleaned = <<>> THEN doc[1] ELSE cleaned[Len(cleaned)].text,
             text |-> cleanUpText(variant,
                        IF cleaned = <<>> THEN doc[1] ELSE cleaned[Len(cleaned)].text)])
    /\ UNCHANGED <<doc, followCursor, voices, defaultLanguage, now, startedTime, speaking,
                   cursor, edCursor, sess, nsess, queue, ending, requests, notices,
                   userCancelled>>

CleanToken == Clean("token")
CleanFlag == Clean("flag")

InitClean ==
    /\ InitCommon /\ followCursor = TRUE
    /\ voices = DefaultVoices /\ defaultLanguage = DefaultVoiceName
    /\ \E line \in MarkupLines \cup {ImageEmbedLine, ImageLine, EmbedLine, LinkLine,
                                     ReturnInUrlLine, ReturnBeforeHashLine} :
          doc = <<line>>

NextClean ==
    \/ CleanToken
    \/ CleanFlag

SpecClean == InitClean /\ [][NextClean]_vars

----------------------------------------------------------------------------
\* One whole-note session from start to end (token variant): a speak command
\* with no selection, the caret anywhere in the note, no remembered cursor

\* "# Title\nHello [link](http://a.com)\n"
DocE ==
    << <<"#", " ", "T", "i", "t", "l", "e">>,
       <<"H", "e", "l", "l", "o", " ", "[", "l", "i", "n", "k", "]", "(", "h", "t", "t",
         "p", ":", "/", "/", "a", ".", "c", "o", "m", ")">>,
       <<>> >>

SpeakWholeDocument ==
    /\ nsess = 0
    /\ \E caret \in Positions(doc) :
          StartSpeechToken("start", cursor, caret, caret, "none", {}, now)

InitDoc ==
    /\ InitCommon /\ doc = DocE /\ followCursor \in BOOLEAN
    /\ voices = DefaultVoices /\ defaultLanguage = DefaultVoiceName

NextDoc ==
    \/ SpeakWholeDocument
    \/ UtteranceEnd

SpecDoc == InitDoc /\ [][NextDoc]_vars

----------------------------------------------------------------------------
\* Properties

RequestsOf(s) == SelectSeq(requests, LAMBDA r : r.sid = s)
Outstanding(s) ==
    Cardinality({ k \in 1..Len(queue) : queue[k].sid = s })
        + Cardinality({ u \in ending : u.sid = s })

\* C1 (token variant): once a newer session has started, no speak request is
\* issued for a line of an older session: in the history of speak requests a
\* request of an older session never follows a request of a newer one.
C1_NoInterleaving ==
    \A p \in 1..Len(requests), q \in 1..Len(requests) :
        p < q => requests[p].sid <= requests[q].sid

\* C2 (flag variant): at most one speech loop is running: at most one loop is
\* awaiting an utterance that the Speech Service still holds.
C2_OneLoop ==
    Cardinality({ s \in Awaiting : \E k \in 1..Len(queue) : queue[k].sid = s }) <= 1

\* C3 (both variants): a session that was Speaking when the Cancel command was
\* invoked issues no further speak request (and so moves the cursor no
\* further), whatever happens next.
C3_CancelledStaysSilent ==
    [][\A s \in userCancelled : Len(RequestsOf(s))' = Len(RequestsOf(s))]_vars

\* C4: a cancelled or superseded loop returns even when the `end` event of its
\* cancelled utterance never fires. The loop's only step is taken on that
\* event, so the claim requires that no loop is left awaiting an utterance
\* that is neither queued nor due an `end` event.
C4_CancelledLoopStops ==
    \A s \in Awaiting : Utterance(s, sess[s].i) \in Elems(queue) \cup ending

\* once a loop awaits an utterance that is gone, it awaits for ever
StuckStays ==
    [][\A s \in Awaiting :
          Utterance(s, sess[s].i) \notin Elems(queue) \cup ending
            => /\ sess'[s] = sess[s]
               /\ Utterance(s, sess[s].i) \notin Elems(queue') \cup ending']_vars

\* C5 (token variant): the speak requests of a session are for its lines
\* 0, 1, 2, ... in that order, each once, each carrying the cleaned line even
\* when it is empty; a loop that ran to its end has requested every line; the
\* request for line i+1 is issued only when line i's completion has arrived, so
\* a session has at most one utterance outstanding, and it is the last one
\* requested.
C5_InOrderOnePerLine ==
    \A s \in 1..nsess :
        /\ Len(RequestsOf(s)) <= Len(sess[s].lines)
        /\ \A k \in 1..Len(RequestsOf(s)) :
              /\ RequestsOf(s)[k].idx = k - 1
              /\ RequestsOf(s)[k].text = cleanUpTextToken(sess[s].lines[k])
        /\ sess[s].exit = "finished" => Len(RequestsOf(s)) = Len(sess[s].lines)
        /\ Outstanding(s) <= 1
        /\ \A k \in 1..Len(queue) :
              queue[k].sid = s => queue[k].idx = Len(RequestsOf(s)) - 1
        /\ sess[s].pc = "await" => sess[s].i = Len(RequestsOf(s)) - 1

\* a session has run to its end over a span of two lines, the second empty
C5_Witness ==
    \E s \in 1..nsess :
        /\ sess[s].exit = "finished"
        /\ Len(sess[s].lines) = 2
        /\ sess[s].lines[2] = <<>>
        /\ Len(RequestsOf(s)) = 2
        /\ RequestsOf(s)[2].text = <<>>

\* C6 (token variant): the latest session, never cancelled and never
\* superseded, returns only after its last line, leaving startedTime = 0
\* and the remembered cursor null (stated for a session whose token no
\* earlier session shares).
C6_NormalCompletion ==
    (/\ nsess >= 1 /\ sess[nsess].pc = "done" /\ nsess \notin userCancelled
     /\ \A s \in 1..(nsess - 1) : sess[s].curTime # sess[nsess].curTime)
        => /\ sess[nsess].exit = "finished"
           /\ Len(RequestsOf(nsess)) = Len(sess[nsess].lines)
           /\ startedTime = 0
           /\ cursor = NullCursor

\* C7 (token variant): a speak-whole/selected-text command invoked with an
\* empty selection when every earlier session has finished or been cancelled
\* vocalizes the whole note from (0, 0).
C7_CursorResetAfterSession ==
    [][(/\ nsess' = nsess + 1 /\ Quiet
        /\ sess'[nsess + 1].via = "start" /\ sess'[nsess + 1].selEmpty)
       => (/\ sess'[nsess + 1].lines = split(getValue(doc))
           /\ sess'[nsess + 1].cur = Pos(0, 0))]_vars

\* C8 (each variant): triggering the stop command issues no speak request: no
\* request in the history belongs to an invocation the stop command made.
C8_StopCommandCancels ==
    \A k \in 1..Len(requests) : sess[requests[k].sid].via # "stop"

\* C9: after an invocation that ended in the catch block, a speak command
\* with an empty selection vocalizes the whole note from line 0.
C9_RetryAfterFailure ==
    [][(/\ nsess' = nsess + 1 /\ Retry
        /\ sess'[nsess + 1].via = "start" /\ sess'[nsess + 1].selEmpty
        /\ sess'[nsess + 1].pc = "await")
       => (/\ sess'[nsess + 1].lines = split(getValue(doc))
           /\ sess'[nsess + 1].cur = Pos(0, 0)
           /\ Len(requests') = Len(requests) + 1)]_vars

\* C10: for a non-empty selection of two or more lines with the cursor at its
\* end, the starting cursor is (first line of the selection, 0), and each
\* line i is spoken with the cursor set to note line (first line + i).
C10_CursorCorrection ==
    \A s \in 1..nsess :
        (~sess[s].selEmpty /\ Len(sess[s].lines) >= 2 /\ sess[s].headAtEnd
            /\ sess[s].pc # "failed")
        => /\ sess[s].cur = Pos(sess[s].spanLine, 0)
           /\ \A k \in 1..Len(RequestsOf(s)) :
                 RequestsOf(s)[k].line = sess[s].spanLine + RequestsOf(s)[k].idx

\* C11: with a configured voice that is not English (Huihui, zh-CN), every
\* utterance whose text is more than 0.65 ASCII letters is handed to the
\* Speech Service tagged "en-US" and not with the configured voice's
\* language, whatever the registry of voices holds.
C11_VoiceFallback ==
    \A k \in 1..Len(requests) :
        (defaultLanguage = VoiceZhCN.name /\ MostlyEnglish(requests[k].text))
            => requests[k].lang = "en-US" /\ requests[k].lang # VoiceZhCN.lang

\* the same, for the registries that hold an en-US voice
VoiceFallbackWhenAvailable ==
    \A k \in 1..Len(requests) :
        (/\ defaultLanguage = VoiceZhCN.name /\ MostlyEnglish(requests[k].text)
         /\ \E j \in 1..Len(voices) : voices[j].lang = "en-US")
            => requests[k].lang = "en-US" /\ requests[k].voice = VoiceEnUS.name

\* C12 (both variants): cleanUpText is idempotent: applied a second time, to
\* its own result, it returns that result unchanged.
C12_Idempotent ==
    Len(cleaned) = 2 => cleaned[2].text = cleaned[1].text

\* the same for the token variant alone, and for the flag variant alone
IdempotentToken ==
    (Len(cleaned) = 2 /\ cleaned[1].variant = "token") => cleaned[2].text = cleaned[1].text
IdempotentFlag ==
    (Len(cleaned) = 2 /\ cleaned[1].variant = "flag") => cleaned[2].text = cleaned[1].text

\* C13 (both variants): cleanUpText removes a markdown image and a wiki-style
\* embed and leaves the text around them untouched: of
\* "![alt](http://x.com/i.png) text ![[Embed]]" it leaves " text ", of
\* "![alt](x) text" it leaves " text", of "text ![[Embed]]" it leaves "text ".
C13_ImageEmbedRemoval ==
    \A k \in 1..Len(cleaned) :
        /\ cleaned[k].input = ImageEmbedLine
              => cleaned[k].text = <<" ", "t", "e", "x", "t", " ">>
        /\ cleaned[k].input = ImageLine
              => cleaned[k].text = <<" ", "t", "e", "x", "t">>
        /\ cleaned[k].input = EmbedLine
              => cleaned[k].text = <<"t", "e", "x", "t", " ">>

\* embeds are removed, and a link is replaced by its label
EmbedAndLinkCleaned ==
    \A k \in 1..Len(cleaned) :
        /\ cleaned[k].input = EmbedLine
              => cleaned[k].text = <<"t", "e", "x", "t", " ">>
        /\ cleaned[k].input = LinkLine
              => cleaned[k].text = <<"h", "e", "l", "l", "o">>

\* the texts of the speak requests so far, in order
Vocalized == [k \in 1..Len(requests) |-> requests[k].text]

IsPrefix(a, b) == Len(a) <= Len(b) /\ a = SubSeq(b, 1, Len(a))

Finished == nsess = 1 /\ sess[1].exit = "finished"

\* C14, as claimed: for the note "# Title\nHello [link](http://a.com)\n" the
\* speak-whole-document command vocalizes exactly "Title", "Hello link", ""
\* in that order, and the cursor ends on the last line of the note.
C14_EndToEnd ==
    /\ IsPrefix(Vocalized,
                << <<"T", "i", "t", "l", "e">>,
                   <<"H", "e", "l", "l", "o", " ", "l", "i", "n", "k">>,
                   <<>> >>)
    /\ Finished => Len(requests) = 3 /\ edCursor.line = lastLine(doc)

\* C14, amended: the session vocalizes exactly " Title", "Hello link", "" in
\* that order, moving the cursor to line k for the k-th of them, and with
\* followCursor enabled the cursor ends at (last line, 0); with followCursor
\* disabled it ends where the caret was.
C14_EndToEndAmended ==
    /\ IsPrefix(Vocalized,
                << <<" ", "T", "i", "t", "l", "e">>,
                   <<"H", "e", "l", "l", "o", " ", "l", "i", "n", "k">>,
                   <<>> >>)
    /\ \A k \in 1..Len(requests) : requests[k].idx = k - 1 /\ requests[k].line = k - 1
    /\ Finished =>
          /\ Len(requests) = 3
          /\ followCursor => edCursor = Pos(lastLine(doc), 0)
          /\ ~followCursor => edCursor = sess[1].caret

\* the session has run to its end with the cursor following, the caret having
\* been on the first line
C14_Witness ==
    /\ Finished /\ followCursor /\ sess[1].spanLine = 0
    /\ Len(requests) = 3
    /\ requests[2].text = <<"H", "e", "l", "l", "o", " ", "l", "i", "n", "k">>
    /\ edCursor = Pos(2, 0)

\* a loop still awaiting although its session was cancelled by the user or
\* superseded by a newer session
Stale(s) == sess[s].pc = "await" /\ (s < nsess \/ s \in userCancelled)

\* C15 (token variant): a superseded or cancelled session never writes the
\* live token again: no step of a stale loop changes startedTime; and so the
\* latest session, when it was never cancelled, returns only by running
\* through its last line.
C15_StaleNeverWritesToken ==
    [][\A s \in 1..nsess :
          /\ (Stale(s) /\ sess'[s] # sess[s]) => startedTime' = startedTime
          /\ (/\ s = nsess /\ s \notin userCancelled
              /\ sess[s].pc = "await" /\ sess'[s].pc = "done")
                => (/\ sess'[s].exit = "finished"
                    /\ Len(RequestsOf(s)) = Len(sess[s].lines))]_vars

\* the same for the stale loops whose token differs from the live one (the
\* sessions read different clock values)
StaleOtherTokenNeverWrites ==
    [][\A s \in 1..nsess :
          (Stale(s) /\ sess[s].curTime # startedTime /\ sess'[s] # sess[s])
              => startedTime' = startedTime]_vars

\* a stale loop that is not on its last line leaves the token alone, whatever
\* the clock read
StaleMidSpanLeavesToken ==
    [][\A s \in 1..nsess :
          (Stale(s) /\ sess[s].i + 1 < Len(sess[s].lines) /\ sess'[s] # sess[s])
              => startedTime' = startedTime]_vars

\* the note line a session's span starts on: the first line of the selection,
\* or of the range from the remembered cursor, or of the note
SpanStartLine(rec) == IF rec.selEmpty THEN rec.cur.line ELSE rec.spanLine

\* this step issues a speak request
Issues == Len(requests') = Len(requests) + 1
Issued == requests'[Len(requests')]

\* C16 (token variant): with followCursor off no step of a session moves the
\* editor's cursor (it stays where it was when the command was invoked) and
\* the lines are still requested in order; with followCursor on every speak
\* request for line i comes with the cursor set to (span start line + i, 0).
C16_FollowCursor ==
    [][/\ ~followCursor =>
            /\ nsess' = nsess + 1 => edCursor' = sess'[nsess'].caret
            /\ nsess' = nsess => edCursor' = edCursor
       /\ Issues =>
            /\ Issued.idx = Len(RequestsOf(Issued.sid))
            /\ Issued.text = cleanUpTextToken(sess'[Issued.sid].lines[Issued.idx + 1])
       /\ (followCursor /\ Issues) =>
            edCursor' = Pos(SpanStartLine(sess'[Issued.sid]) + Issued.idx, 0)]_vars

\* the part on followCursor off, alone
NoFollowLeavesCursor ==
    [][~followCursor =>
            /\ nsess' = nsess + 1 => edCursor' = sess'[nsess'].caret
            /\ nsess' = nsess => edCursor' = edCursor
            /\ Issues => Issued.idx = Len(RequestsOf(Issued.sid))]_vars

\* with followCursor on the cursor is set to (line of the starting cursor + i,
\* 0), clipped to the note
FollowSetsCursorFromStart ==
    [][(followCursor /\ Issues) =>
            edCursor' = setCursor(doc, Pos(sess'[Issued.sid].cur.line + Issued.idx, 0))]_vars

\* C17 (token variant): the token a session captures (curTime = Date.now())
\* is not the idle sentinel 0 and differs from the token of every earlier
\* session whose loop has not returned, also when two invocations read the
\* same clock value.
C17_TokenFresh ==
    [][nsess' = nsess + 1 =>
          /\ sess'[nsess'].curTime # 0
          /\ \A a \in 1..nsess :
                sess[a].pc = "await" => sess[a].curTime # sess'[nsess'].curTime]_vars

\* the token is not the idle sentinel (the clock reads a time after its origin)
TokenNotIdle ==
    [][nsess' = nsess + 1 => sess'[nsess'].curTime # 0]_vars

\* the token differs from the earlier ones when the clock has moved on between
\* the invocations
TokenFreshWhenClockMoved ==
    [][(nsess' = nsess + 1 /\ now' > now) =>
          \A a \in 1..nsess : sess[a].curTime # sess'[nsess'].curTime]_vars

====
